---- MODULE Spec2Model ----
(***************************************************************************)
(* A model of bevy_simple_networking's `Transport` resource               *)
(* (src/src/transport.rs): the queue of outbound messages, the three link *)
(* condition fields, and the filtered drain loop.                         *)
(*                                                                         *)
(* `Transport` has a single owner: every mutating method takes `&mut      *)
(* self`, so no other method can run while drain_messages_to_send is in   *)
(* its loop (the filter closure cannot reach the transport either).  The  *)
(* drain loop is modelled iteration by iteration (pc = "drain"); every    *)
(* other method is one atomic action taken while pc = "idle".             *)
(***************************************************************************)
EXTENDS Integers, Sequences, FiniteSets, TLC

(***************************************************************************)
(* Bounds of the model.                                                    *)
(***************************************************************************)
\* Total number of `send` calls in one behaviour (the queue is unbounded in
\* the code; the cap keeps the state space finite).
MaxSends == 3

(***************************************************************************)
(* Input values.                                                           *)
(***************************************************************************)
Destinations == {"127.0.0.1:3000", "127.0.0.1:3001"}

heartbeat_payload == ""
test_payload == "test"
Payloads == {heartbeat_payload, test_payload}

\* What a filter can read of a message: its destination and its payload.
Contents == Destinations \X Payloads

\* The (destination, payload) pairs handed to send: a heartbeat and a test
\* payload for the first peer, a test payload for the second.
SendInputs ==
    {<<"127.0.0.1:3000", heartbeat_payload>>,
     <<"127.0.0.1:3000", test_payload>>,
     <<"127.0.0.1:3001", test_payload>>}

\* i32 values handed to set_frame_budget_bytes (the field starts at 0).
BudgetInputs == {-1}

\* i64 values handed to set_latency_nanos (TLC's integers are 32 bits wide,
\* so the values stay below 2^31; the code's only arithmetic on them is a
\* division by a positive constant, which cannot overflow an i64).
LatencyInputs == {1500000, 999999, -1500000}

\* f32 values, by their IEEE-754 fields (sign, biased exponent, fraction).
F32(s, e, f) == [sign |-> s, exponent |-> e, fraction |-> f]
F32Zero == F32(0, 0, 0)                \* 0.0
F32Quarter == F32(0, 125, 0)           \* 0.25
F32One == F32(0, 127, 0)               \* 1.0
F32OneAndHalf == F32(0, 127, 4194304)  \* 1.5, outside [0.0, 1.0]
LossInputs == {F32Quarter, F32OneAndHalf}

\* The value of `()`.
Unit == "()"

(***************************************************************************)
(* Messages.  `uid` is not a field of the Rust struct: it stands for the   *)
(* identity of the message instance (two messages with the same           *)
(* destination and payload are still two messages).  No filter reads it.  *)
(***************************************************************************)
MessageNew(destination, payload, uid) ==
    [destination |-> destination, payload |-> payload, uid |-> uid]

Content(m) == <<m.destination, m.payload>>

Uids(s) == [k \in 1..Len(s) |-> s[k].uid]

(***************************************************************************)
(* The filters handed to drain_messages_to_send:                           *)
(*     impl FnMut(&mut Message) -> bool                                    *)
(* A filter may keep state between its calls (FnMut) and may change the   *)
(* message it is shown (&mut Message).                                     *)
(*   pure      |m| accept.contains(&(m.destination, &m.payload))           *)
(*   take_one  { let mut first = true;                                     *)
(*               move |_| std::mem::replace(&mut first, false) }           *)
(*   truncate  |m| { let hb = m.payload.is_empty();                        *)
(*                   m.payload = Bytes::new(); hb }                        *)
(***************************************************************************)
PureFilter(accept) == [kind |-> "pure", accept |-> accept]
AlwaysTrue == PureFilter(Contents)
AlwaysFalse == PureFilter({})
IsHeartbeat == PureFilter({c \in Contents : c[2] = heartbeat_payload})
TakeOne == [kind |-> "take_one", accept |-> {}]
Truncate == [kind |-> "truncate", accept |-> {}]

Filters == {AlwaysTrue, AlwaysFalse, IsHeartbeat, TakeOne, Truncate}

\* The closure's captured state when it is built.
FilterInit(f) == IF f.kind = "take_one" THEN TRUE ELSE FALSE

\* The closure's answer for message m, in closure state st.
FilterAnswer(f, st, m) ==
    CASE f.kind = "pure" -> Content(m) \in f.accept
      [] f.kind = "take_one" -> st
      [] f.kind = "truncate" -> m.payload = heartbeat_payload

\* The closure's captured state after the call.
FilterState(f, st, m) == IF f.kind = "take_one" THEN FALSE ELSE st

\* The message after the call (the closure holds a &mut to it).
FilterMessage(f, st, m) ==
    IF f.kind = "truncate" THEN [m EXCEPT !.payload = heartbeat_payload] ELSE m

(***************************************************************************)
(* Library operations the code uses.                                       *)
(***************************************************************************)
\* Variant: a division that floors, as `div_euclid` does for a positive divisor.
FloorDiv(a, b) == a \div b

\* Rust's `/` on signed integers truncates toward zero (TLA+'s \div floors).
RustDiv(a, b) == IF a >= 0 THEN a \div b ELSE -((-a) \div b)

\* Variant: VecDeque::push_front.
PushFront(q, m) == <<m>> \o q

\* VecDeque::push_back
PushBack(q, m) == Append(q, m)

\* Variant: VecDeque::swap_remove_back, which fills the gap with the last
\* element instead of shifting.
VecDequeSwapRemoveBack(q, index) ==
    IF index < Len(q)
    THEN [some |-> TRUE,
          value |-> q[index + 1],
          rest |-> [k \in 1..(Len(q) - 1) |-> IF k = index + 1 THEN q[Len(q)] ELSE q[k]]]
    ELSE [some |-> FALSE, value |-> Unit, rest |-> q]

\* VecDeque::remove(index), index counted from 0: None when out of range,
\* else the element, the elements after it moving one place to the front.
VecDequeRemove(q, index) ==
    IF index < Len(q)
    THEN [some |-> TRUE,
          value |-> q[index + 1],
          rest |-> [k \in 1..(Len(q) - 1) |-> IF k <= index THEN q[k] ELSE q[k + 1]]]
    ELSE [some |-> FALSE, value |-> Unit, rest |-> q]

\* How often the message instance `uid` occurs in the sequence s.
Occurrences(s, uid) == Cardinality({k \in 1..Len(s) : s[k].uid = uid})

\* The drain as a function of the queue and the filter alone: each message is
\* shown to the filter once, front first; the messages it accepts are `out`,
\* the others `kept`, each as the filter left it.
RECURSIVE RefDrain(_, _, _)
RefDrain(q, f, st) ==
    IF q = <<>>
    THEN [kept |-> <<>>, out |-> <<>>]
    ELSE LET m == Head(q)
             after == RefDrain(Tail(q), f, FilterState(f, st, m))
             seen == FilterMessage(f, st, m)
         IN IF FilterAnswer(f, st, m)
            THEN [kept |-> after.kept, out |-> <<seen>> \o after.out]
            ELSE [kept |-> <<seen>> \o after.kept, out |-> after.out]

NanosPerMilli == 1000000
NanosPerMicro == 1000

(***************************************************************************)
(* State.                                                                  *)
(***************************************************************************)
VARIABLES
    messages,            \* Transport.messages, front first
    frame_budget_bytes,  \* Transport.frame_budget_bytes
    latency_nanos,       \* Transport.latency_nanos
    packet_loss,         \* Transport.packet_loss
    pc,                  \* "idle", or "drain" inside drain_messages_to_send
    filter,              \* drain: the filter argument
    fstate,              \* drain: the filter closure's captured state
    i,                   \* drain: the local `i`
    drained,             \* drain: the local `drained`
    ret,                 \* the last call: its name, argument and return value
    history,             \* ghost: every message built by send, in call order
    pre,                 \* ghost: `messages` as the running drain found it
    repeat,              \* ghost: the running drain repeats the call before it
    sendsOnly,           \* ghost: no drain has been called yet
    lastSet,             \* ghost: the last value given to each setter
    evals,               \* ghost: the messages the running drain has shown its filter
    shadow,              \* ghost: the queue replayed from the send and drain calls alone
    shadowOut,           \* ghost: the running drain's result in that replay
    returned             \* ghost: for each message sent, how often a drain returned it

vars == <<messages, frame_budget_bytes, latency_nanos, packet_loss, pc, filter,
          fstate, i, drained, ret, history, pre, repeat, sendsOnly, lastSet,
          evals, shadow, shadowOut, returned>>

link == <<frame_budget_bytes, latency_nanos, packet_loss>>
locals == <<filter, fstate, i, drained, pre, repeat>>
audit == <<evals, shadow, shadowOut, returned>>

Call(op, arg, val) == [op |-> op, arg |-> arg, val |-> val]

\* Transport::new
New ==
    /\ messages = <<>>
    /\ frame_budget_bytes = 0
    /\ latency_nanos = 0
    /\ packet_loss = F32Zero

\* Variant: a default that assumes every packet is lost.
DefaultLossy ==
    /\ messages = <<>>
    /\ frame_budget_bytes = 0
    /\ latency_nanos = 0
    /\ packet_loss = F32One

\* <Transport as Default>::default
Default ==
    /\ messages = <<>>
    /\ frame_budget_bytes = 0
    /\ latency_nanos = 0
    /\ packet_loss = F32Zero

Init ==
    /\ \/ New /\ ret = Call("new", Unit, Unit)
       \/ Default /\ ret = Call("default", Unit, Unit)
    /\ pc = "idle"
    /\ filter = AlwaysFalse
    /\ fstate = FALSE
    /\ i = 0
    /\ drained = <<>>
    /\ history = <<>>
    /\ pre = <<>>
    /\ repeat = FALSE
    /\ sendsOnly = TRUE
    /\ lastSet = [frame_budget_bytes |-> 0, latency_nanos |-> 0, packet_loss |-> F32Zero]
    /\ evals = <<>>
    /\ shadow = <<>>
    /\ shadowOut = <<>>
    /\ returned = <<>>

(***************************************************************************)
(* Link-condition accessors.                                               *)
(***************************************************************************)
FrameBudgetBytes ==
    /\ pc = "idle"
    /\ ret' = Call("frame_budget_bytes", Unit, frame_budget_bytes)
    /\ UNCHANGED <<messages, link, pc, locals, history, sendsOnly, lastSet, audit>>

SetFrameBudgetBytes(budget) ==
    /\ pc = "idle"
    /\ frame_budget_bytes' = budget
    /\ lastSet' = [lastSet EXCEPT !.frame_budget_bytes = budget]
    /\ ret' = Call("set_frame_budget_bytes", budget, Unit)
    /\ UNCHANGED <<messages, latency_nanos, packet_loss, pc, locals, history, sendsOnly, audit>>

\* Variant: the conversion is done in place (the receiver is `&mut self`).
LatencyMillisInPlace ==
    /\ pc = "idle"
    /\ latency_nanos' = RustDiv(latency_nanos, NanosPerMilli)
    /\ ret' = Call("latency_millis", Unit, RustDiv(latency_nanos, NanosPerMilli))
    /\ UNCHANGED <<messages, frame_budget_bytes, packet_loss, pc, locals, history,
                   sendsOnly, lastSet, audit>>

LatencyMillis ==
    /\ pc = "idle"
    /\ ret' = Call("latency_millis", Unit, RustDiv(latency_nanos, NanosPerMilli))
    /\ UNCHANGED <<messages, link, pc, locals, history, sendsOnly, lastSet, audit>>

LatencyMicros ==
    /\ pc = "idle"
    /\ ret' = Call("latency_micros", Unit, RustDiv(latency_nanos, NanosPerMicro))
    /\ UNCHANGED <<messages, link, pc, locals, history, sendsOnly, lastSet, audit>>

LatencyNanos ==
    /\ pc = "idle"
    /\ ret' = Call("latency_nanos", Unit, latency_nanos)
    /\ UNCHANGED <<messages, link, pc, locals, history, sendsOnly, lastSet, audit>>

SetLatencyNanos(latency) ==
    /\ pc = "idle"
    /\ latency_nanos' = latency
    /\ lastSet' = [lastSet EXCEPT !.latency_nanos = latency]
    /\ ret' = Call("set_latency_nanos", latency, Unit)
    /\ UNCHANGED <<messages, frame_budget_bytes, packet_loss, pc, locals, history, sendsOnly, audit>>

PacketLoss ==
    /\ pc = "idle"
    /\ ret' = Call("packet_loss", Unit, packet_loss)
    /\ UNCHANGED <<messages, link, pc, locals, history, sendsOnly, lastSet, audit>>

\* Variant: the setter clamps the value to [0.0, 1.0].
F32Clamp01(x) ==
    IF x.sign = 1 THEN F32Zero
    ELSE IF x.exponent >= 127 THEN F32One
    ELSE x

SetPacketLossClamped(loss) ==
    /\ pc = "idle"
    /\ packet_loss' = F32Clamp01(loss)
    /\ lastSet' = [lastSet EXCEPT !.packet_loss = loss]
    /\ ret' = Call("set_packet_loss", loss, Unit)
    /\ UNCHANGED <<messages, frame_budget_bytes, latency_nanos, pc, locals, history, sendsOnly, audit>>

SetPacketLoss(loss) ==
    /\ pc = "idle"
    /\ packet_loss' = loss
    /\ lastSet' = [lastSet EXCEPT !.packet_loss = loss]
    /\ ret' = Call("set_packet_loss", loss, Unit)
    /\ UNCHANGED <<messages, frame_budget_bytes, latency_nanos, pc, locals, history, sendsOnly, audit>>

(***************************************************************************)
(* The queue.                                                              *)
(***************************************************************************)
\* Variant: a message is dropped when the frame budget is used up.
SendUnlessOverBudget(destination, payload) ==
    /\ pc = "idle"
    /\ Len(history) < MaxSends
    /\ LET message == MessageNew(destination, payload, Len(history) + 1)
       IN /\ messages' = IF frame_budget_bytes < 0
                         THEN messages
                         ELSE PushBack(messages, message)
          /\ history' = Append(history, message)
          /\ shadow' = Append(shadow, message)
          /\ returned' = Append(returned, 0)
    /\ ret' = Call("send", <<destination, payload>>, Unit)
    /\ UNCHANGED <<link, pc, locals, sendsOnly, lastSet, evals, shadowOut>>

\* Variant: send charges the message against the frame budget.
SendSpendsBudget(destination, payload) ==
    /\ pc = "idle"
    /\ Len(history) < MaxSends
    /\ LET message == MessageNew(destination, payload, Len(history) + 1)
       IN /\ messages' = PushBack(messages, message)
          /\ history' = Append(history, message)
          /\ shadow' = Append(shadow, message)
          /\ returned' = Append(returned, 0)
    /\ frame_budget_bytes' = frame_budget_bytes - 1
    /\ ret' = Call("send", <<destination, payload>>, Unit)
    /\ UNCHANGED <<latency_nanos, packet_loss, pc, locals, sendsOnly, lastSet, evals, shadowOut>>

Send(destination, payload) ==
    /\ pc = "idle"
    /\ Len(history) < MaxSends
    /\ LET message == MessageNew(destination, payload, Len(history) + 1)
       IN /\ messages' = PushBack(messages, message)
          /\ history' = Append(history, message)
          /\ shadow' = Append(shadow, message)
          /\ returned' = Append(returned, 0)
    /\ ret' = Call("send", <<destination, payload>>, Unit)
    /\ UNCHANGED <<link, pc, locals, sendsOnly, lastSet, evals, shadowOut>>

\* Variant: `self.messages.len() > 1`.
HasMessagesMoreThanOne == Len(messages) > 1

\* `!self.messages.is_empty()`
HasMessagesValue == ~(Len(messages) = 0)

HasMessages ==
    /\ pc = "idle"
    /\ ret' = Call("has_messages", Unit, HasMessagesValue)
    /\ UNCHANGED <<messages, link, pc, locals, history, sendsOnly, lastSet, audit>>

GetMessages ==
    /\ pc = "idle"
    /\ ret' = Call("get_messages", Unit, messages)
    /\ UNCHANGED <<messages, link, pc, locals, history, sendsOnly, lastSet, audit>>

(***************************************************************************)
(* drain_messages_to_send.                                                 *)
(***************************************************************************)
\* Variant: the loop stops one element early.
LoopConditionShort == i + 1 < Len(messages)

\* Variant: the loop also stops when the frame budget is used up.
LoopConditionWithinBudget == i # Len(messages) /\ frame_budget_bytes >= 0

\* `i != self.messages.len()`
LoopCondition == i # Len(messages)

\* The call, up to the first test of the loop condition.
DrainBegin(f) ==
    /\ pc = "idle"
    /\ pc' = "drain"
    /\ filter' = f
    /\ fstate' = FilterInit(f)
    /\ drained' = <<>>
    /\ i' = 0
    /\ pre' = messages
    /\ repeat' = (ret.op = "drain_messages_to_send" /\ ret.arg = f)
    /\ sendsOnly' = FALSE
    /\ ret' = Call("drain_messages_to_send", f, <<>>)
    /\ evals' = <<>>
    /\ LET replay == RefDrain(shadow, f, FilterInit(f))
       IN /\ shadow' = replay.kept
          /\ shadowOut' = replay.out
    /\ UNCHANGED <<messages, link, history, lastSet, returned>>

\* Variant: the index also advances after a removal.
DrainStepSkip ==
    /\ pc = "drain"
    /\ LoopCondition
    /\ LET m == messages[i + 1]
           answer == FilterAnswer(filter, fstate, m)
           shown == [messages EXCEPT ![i + 1] = FilterMessage(filter, fstate, m)]
           removed == VecDequeRemove(shown, i)
       IN /\ fstate' = FilterState(filter, fstate, m)
          /\ evals' = Append(evals, m.uid)
          /\ IF answer
             THEN /\ messages' = removed.rest
                  /\ drained' = Append(drained, removed.value)
                  /\ i' = IF i + 1 <= Len(removed.rest) THEN i + 1 ELSE i
             ELSE /\ messages' = shown
                  /\ drained' = drained
                  /\ i' = i + 1
    /\ UNCHANGED <<link, pc, filter, ret, history, pre, repeat, sendsOnly, lastSet,
                   shadow, shadowOut, returned>>

\* Variant: a matching message is copied out but not removed.
DrainStepCopy ==
    /\ pc = "drain"
    /\ LoopCondition
    /\ LET m == messages[i + 1]
           answer == FilterAnswer(filter, fstate, m)
           shown == [messages EXCEPT ![i + 1] = FilterMessage(filter, fstate, m)]
       IN /\ fstate' = FilterState(filter, fstate, m)
          /\ evals' = Append(evals, m.uid)
          /\ messages' = shown
          /\ drained' = IF answer THEN Append(drained, shown[i + 1]) ELSE drained
          /\ i' = i + 1
    /\ UNCHANGED <<link, pc, filter, ret, history, pre, repeat, sendsOnly, lastSet,
                   shadow, shadowOut, returned>>

\* Variant: the filter's answer is negated.
DrainStepInverted ==
    /\ pc = "drain"
    /\ LoopCondition
    /\ LET m == messages[i + 1]
           answer == ~FilterAnswer(filter, fstate, m)
           shown == [messages EXCEPT ![i + 1] = FilterMessage(filter, fstate, m)]
           removed == VecDequeRemove(shown, i)
       IN /\ fstate' = FilterState(filter, fstate, m)
          /\ evals' = Append(evals, m.uid)
          /\ IF answer
             THEN /\ messages' = removed.rest
                  /\ drained' = Append(drained, removed.value)
                  /\ i' = i
             ELSE /\ messages' = shown
                  /\ drained' = drained
                  /\ i' = i + 1
    /\ UNCHANGED <<link, pc, filter, ret, history, pre, repeat, sendsOnly, lastSet,
                   shadow, shadowOut, returned>>

\* Variant: the payload is taken out of a message before it is pushed to
\* `drained`.
DrainStepTakesPayload ==
    /\ pc = "drain"
    /\ LoopCondition
    /\ LET m == messages[i + 1]
           answer == FilterAnswer(filter, fstate, m)
           shown == [messages EXCEPT ![i + 1] = FilterMessage(filter, fstate, m)]
           removed == VecDequeRemove(shown, i)
       IN /\ fstate' = FilterState(filter, fstate, m)
          /\ evals' = Append(evals, m.uid)
          /\ IF answer
             THEN /\ messages' = removed.rest
                  /\ drained' = Append(drained,
                                       [removed.value EXCEPT !.payload = heartbeat_payload])
                  /\ i' = i
             ELSE /\ messages' = shown
                  /\ drained' = drained
                  /\ i' = i + 1
    /\ UNCHANGED <<link, pc, filter, ret, history, pre, repeat, sendsOnly, lastSet,
                   shadow, shadowOut, returned>>

\* Variant: the `else { i += 1 }` branch is missing.
DrainStepStall ==
    /\ pc = "drain"
    /\ LoopCondition
    /\ LET m == messages[i + 1]
           answer == FilterAnswer(filter, fstate, m)
           shown == [messages EXCEPT ![i + 1] = FilterMessage(filter, fstate, m)]
           removed == VecDequeRemove(shown, i)
       IN /\ fstate' = FilterState(filter, fstate, m)
          /\ evals' = IF Len(evals) < Len(pre) THEN Append(evals, m.uid) ELSE evals
          /\ IF answer
             THEN /\ messages' = removed.rest
                  /\ drained' = Append(drained, removed.value)
             ELSE /\ messages' = shown
                  /\ drained' = drained
          /\ i' = i
    /\ UNCHANGED <<link, pc, filter, ret, history, pre, repeat, sendsOnly, lastSet,
                   shadow, shadowOut, returned>>

\* One iteration of `while i != self.messages.len()`.
DrainStep ==
    /\ pc = "drain"
    /\ LoopCondition
    /\ LET m == messages[i + 1]
           answer == FilterAnswer(filter, fstate, m)
           shown == [messages EXCEPT ![i + 1] = FilterMessage(filter, fstate, m)]
           removed == VecDequeRemove(shown, i)
       IN /\ fstate' = FilterState(filter, fstate, m)
          /\ evals' = Append(evals, m.uid)
          /\ IF answer
             THEN /\ messages' = removed.rest
                  /\ drained' = IF removed.some
                                THEN Append(drained, removed.value)
                                ELSE drained
                  /\ i' = i
             ELSE /\ messages' = shown
                  /\ drained' = drained
                  /\ i' = i + 1
    /\ UNCHANGED <<link, pc, filter, ret, history, pre, repeat, sendsOnly, lastSet,
                   shadow, shadowOut, returned>>

\* The loop condition fails: `drained` is returned.
DrainReturn ==
    /\ pc = "drain"
    /\ ~LoopCondition
    /\ pc' = "idle"
    /\ ret' = Call("drain_messages_to_send", filter, drained)
    /\ filter' = AlwaysFalse
    /\ fstate' = FALSE
    /\ i' = 0
    /\ drained' = <<>>
    /\ pre' = <<>>
    /\ repeat' = FALSE
    /\ evals' = <<>>
    /\ shadowOut' = <<>>
    /\ returned' = [u \in 1..Len(returned) |-> returned[u] + Occurrences(drained, u)]
    /\ UNCHANGED <<messages, link, history, sendsOnly, lastSet, shadow>>

Next ==
    \/ FrameBudgetBytes
    \/ \E budget \in BudgetInputs : SetFrameBudgetBytes(budget)
    \/ LatencyMillis
    \/ LatencyMicros
    \/ LatencyNanos
    \/ \E latency \in LatencyInputs : SetLatencyNanos(latency)
    \/ PacketLoss
    \/ \E loss \in LossInputs : SetPacketLoss(loss)
    \/ \E input \in SendInputs : Send(input[1], input[2])
    \/ HasMessages
    \/ GetMessages
    \/ \E f \in Filters : DrainBegin(f)
    \/ DrainStep
    \/ DrainReturn

Spec == Init /\ [][Next]_vars

(***************************************************************************)
(* Properties.                                                             *)
(***************************************************************************)
\* The drain loop has tested its condition for the last time: `drained` is
\* what the call returns and `messages` is what it leaves behind.
AtReturn == pc = "drain" /\ ~LoopCondition

\* The filter's answer does not depend on earlier calls of the filter.
Stateless(f) == f.kind \in {"pure", "truncate"}

\* The answer of a stateless filter for message m.
Accepts(f, m) == FilterAnswer(f, FilterInit(f), m)

Matching(f, s) == SelectSeq(s, LAMBDA m : Accepts(f, m))
NotMatching(f, s) == SelectSeq(s, LAMBDA m : ~Accepts(f, m))

StrictlyIncreasing(s) == \A j, k \in 1..Len(s) : j < k => s[j] < s[k]

\* s holds message instances of `history`, each once, in the order of send.
InSendOrder(s) ==
    /\ \A k \in 1..Len(s) : s[k].uid \in 1..Len(history)
    /\ StrictlyIncreasing(Uids(s))

SetterOps == {"set_frame_budget_bytes", "set_latency_nanos", "set_packet_loss"}

\* q is v / d truncated toward zero (d > 0).
TruncatedQuotient(v, d, q) ==
    /\ v >= 0 => (q >= 0 /\ q * d <= v /\ v < q * d + d)
    /\ v <= 0 => (q <= 0 /\ q * d >= v /\ v > q * d - d)

\* C1: for a filter whose answer depends only on the message, the drain is a
\* stable partition: the returned messages are exactly the pending messages
\* the filter accepts, in their pending order, and the messages left pending
\* are exactly those it rejects, in their pending order (instance by
\* instance; value by value when the filter does not change the messages).
C1_StablePartition ==
    (AtReturn /\ Stateless(filter)) =>
        /\ Uids(drained) = Uids(Matching(filter, pre))
        /\ Uids(messages) = Uids(NotMatching(filter, pre))
        /\ filter.kind = "pure" =>
              /\ drained = Matching(filter, pre)
              /\ messages = NotMatching(filter, pre)

\* A drain of three messages whose first and third match and whose second
\* does not (matches alternate with non-matches).
C1_Witness ==
    /\ AtReturn
    /\ filter = IsHeartbeat
    /\ Len(pre) = 3
    /\ drained = <<pre[1], pre[3]>>
    /\ messages = <<pre[2]>>

\* C2 as stated: a drain that repeats the call before it, with the same
\* filter and nothing in between, returns nothing and leaves `messages` as
\* it found them -- for every filter the method accepts.
C2_RepeatAnyFilter ==
    (AtReturn /\ repeat) => (drained = <<>> /\ messages = pre)

\* C2, amended: a drain that repeats the call before it, with the same filter
\* and nothing in between, returns nothing and leaves `messages` as it found
\* them, when the filter's answer depends only on the message's destination
\* and payload and the filter does not change the message.
C2_RepeatPureFilter ==
    (AtReturn /\ repeat /\ filter.kind = "pure") =>
        (drained = <<>> /\ messages = pre)

\* The second of two heartbeat drains, the first of which removed a message
\* and left another.
C2_Witness ==
    /\ AtReturn
    /\ repeat
    /\ filter = IsHeartbeat
    /\ Len(pre) > 0
    /\ Len(pre) < Len(history)
    /\ \E k \in 1..Len(history) : history[k].payload = heartbeat_payload

\* C3: in every state, the pending messages, the messages a running drain
\* has collected and the messages the last drain returned are each in the
\* order of their send calls.
C3_SendOrder ==
    /\ InSendOrder(messages)
    /\ InSendOrder(drained)
    /\ ret.op = "drain_messages_to_send" => InSendOrder(ret.val)

\* A stateful drain took the first message only, a later drain returned two
\* of the messages sent around it, and one message is still pending.
C3_Witness ==
    /\ pc = "idle"
    /\ ret.op = "drain_messages_to_send"
    /\ Len(ret.val) = 2
    /\ Len(messages) = 1
    /\ Len(history) = 3
    /\ ret.val[1].uid < messages[1].uid
    /\ messages[1].uid < ret.val[2].uid

\* C4: a drain with the always-true filter returns every pending message in
\* pending order and leaves the queue empty, so that has_messages is false;
\* repeated at once, it returns nothing.
C4_DrainAll ==
    (AtReturn /\ filter = AlwaysTrue) =>
        /\ drained = pre
        /\ messages = <<>>
        /\ ~HasMessagesValue
        /\ repeat => drained = <<>>

\* An always-true drain returned three messages.
C4_Witness ==
    /\ AtReturn
    /\ filter = AlwaysTrue
    /\ Len(drained) = 3

\* C5: every step of a drain with the always-false filter leaves `messages`
\* and the three link-condition fields as they are, and the call returns
\* nothing.
C5_DrainNone ==
    [][((pc' = "drain" /\ filter' = AlwaysFalse) \/ (pc = "drain" /\ filter = AlwaysFalse))
         => /\ messages' = messages
            /\ link' = link
            /\ drained' = <<>>
            /\ pc' = "idle" => ret'.val = <<>>]_vars

\* An always-false drain has passed over two pending messages, the link
\* conditions having been set before.
C5_Witness ==
    /\ AtReturn
    /\ filter = AlwaysFalse
    /\ Len(messages) = 2
    /\ frame_budget_bytes # 0
    /\ latency_nanos # 0
    /\ packet_loss # F32Zero

\* C6: a send step appends one message with the given destination and
\* payload at the tail of `messages`, the messages before it unchanged; and
\* send is enabled for every input whatever the queue and the frame budget
\* are (up to MaxSends calls).
C6_SendAppends ==
    /\ [][ret'.op = "send" =>
             /\ Len(messages') = Len(messages) + 1
             /\ SubSeq(messages', 1, Len(messages)) = messages
             /\ messages'[Len(messages')].destination = ret'.arg[1]
             /\ messages'[Len(messages')].payload = ret'.arg[2]]_vars
    /\ [](pc = "idle" /\ Len(history) < MaxSends =>
             \A input \in SendInputs : ENABLED Send(input[1], input[2]))

\* Two pending messages with the same destination and payload, sent while
\* the frame budget was negative.
C6_Witness ==
    /\ ret.op = "send"
    /\ frame_budget_bytes < 0
    /\ Len(messages) = 2
    /\ Content(messages[1]) = Content(messages[2])
    /\ Len(history) = 2

\* C7: has_messages returns false exactly when `messages` is empty, and
\* while no drain has been called get_messages returns the messages sent,
\* in the order of their send calls.
C7_HasMessages ==
    /\ ret.op = "has_messages" => (ret.val = FALSE <=> messages = <<>>)
    /\ (ret.op = "get_messages" /\ sendsOnly) => ret.val = history

\* has_messages answered false after messages had been sent and drained.
C7_Witness ==
    /\ ret.op = "has_messages"
    /\ ret.val = FALSE
    /\ Len(history) > 0

\* C8: latency_millis and latency_micros return the latency last set divided
\* by 1_000_000 and by 1_000, truncated toward zero: 1_500_000 gives 1 and
\* 1500, 999_999 gives 0 millis, -1_500_000 gives -1 and -1500.
C8_LatencyTruncates ==
    /\ ret.op = "latency_millis" =>
          /\ TruncatedQuotient(lastSet.latency_nanos, 1000000, ret.val)
          /\ lastSet.latency_nanos = 1500000 => ret.val = 1
          /\ lastSet.latency_nanos = 999999 => ret.val = 0
          /\ lastSet.latency_nanos = -1500000 => ret.val = -1
    /\ ret.op = "latency_micros" =>
          /\ TruncatedQuotient(lastSet.latency_nanos, 1000, ret.val)
          /\ lastSet.latency_nanos = 1500000 => ret.val = 1500
          /\ lastSet.latency_nanos = -1500000 => ret.val = -1500

\* latency_millis was asked for a negative latency that is no multiple of a
\* millisecond.
C8_Witness ==
    /\ ret.op = "latency_millis"
    /\ lastSet.latency_nanos = -1500000
    /\ ret.val = -1

C10_OnlySettersChangeLink ==
    [][ret'.op \notin SetterOps => link' = link]_vars

\* A drain returned messages after every link-condition field had been set.
C10_Witness ==
    /\ pc = "idle"
    /\ ret.op = "drain_messages_to_send"
    /\ Len(ret.val) > 0
    /\ frame_budget_bytes = -1
    /\ latency_nanos = 999999
    /\ packet_loss = F32Quarter

QueryOps ==
    {"has_messages", "get_messages", "frame_budget_bytes", "latency_nanos",
     "latency_millis", "latency_micros", "packet_loss"}

\* C11: a step of has_messages, get_messages, frame_budget_bytes,
\* latency_nanos, latency_millis, latency_micros or packet_loss, taken in any
\* reachable state, leaves `messages` and the three link-condition fields
\* unchanged.
C11_QueriesArePure ==
    [][ret'.op \in QueryOps => (messages' = messages /\ link' = link)]_vars

\* latency_micros answered 1500 with two messages pending and the packet
\* loss set.
C11_Witness ==
    /\ ret.op = "latency_micros"
    /\ ret.val = 1500
    /\ latency_nanos = 1500000
    /\ Len(messages) = 2
    /\ packet_loss = F32Quarter

\* No send, drain or setter has been called since the transport was built
\* (no setter input equals a field's initial value).
Fresh ==
    /\ history = <<>>
    /\ sendsOnly
    /\ lastSet = [frame_budget_bytes |-> 0, latency_nanos |-> 0, packet_loss |-> F32Zero]

\* C12: a transport built by new or by default, and only queried since, has
\* no messages, a frame budget of 0, a latency of 0 and a packet loss of 0.0;
\* has_messages answers false and latency_millis and latency_micros answer 0.
C12_NewIsEmpty ==
    /\ ret.op \in {"new", "default"} => Fresh
    /\ Fresh =>
          /\ messages = <<>>
          /\ frame_budget_bytes = 0
          /\ latency_nanos = 0
          /\ packet_loss = F32Zero
          /\ ret.op = "has_messages" => ret.val = FALSE
          /\ ret.op \in {"latency_millis", "latency_micros"} => ret.val = 0
          /\ ret.op = "get_messages" => ret.val = <<>>

\* has_messages was asked of a transport on which nothing else had been
\* called.
C12_Witness ==
    /\ Fresh
    /\ ret.op = "has_messages"
    /\ ret.val = FALSE

\* The messages the transport holds or has just handed out: those pending,
\* those a running drain has collected and those the last drain returned.
Held ==
    {messages[k] : k \in 1..Len(messages)}
        \cup {drained[k] : k \in 1..Len(drained)}
        \cup IF ret.op = "drain_messages_to_send"
             THEN {ret.val[k] : k \in 1..Len(ret.val)}
             ELSE {}

\* The filter changes some message it is shown.
Writes(f) ==
    \E c \in Contents, st \in BOOLEAN :
        FilterMessage(f, st, MessageNew(c[1], c[2], 1)) # MessageNew(c[1], c[2], 1)

\* C13 as stated: whatever filters the drains were called with, every message
\* held has the destination and payload its send call was given.
C13_MessagesImmutable ==
    \A m \in Held : Content(m) = Content(history[m.uid])

\* C13, amended: the transport itself never changes a message.  After every
\* step that is not an iteration of a drain whose filter writes to the
\* message it is shown, each message held was held before the step with the
\* same destination and payload, or is the message the step's send call built
\* from its arguments.
C13_OnlyAFilterChangesAMessage ==
    [][(pc = "drain" /\ Writes(filter))
         \/ \A m \in Held' :
               \/ m \in Held
               \/ /\ ret'.op = "send"
                  /\ m = MessageNew(ret'.arg[1], ret'.arg[2], Len(history'))
                  /\ m = history'[m.uid]]_vars

\* A heartbeat drain, which only reads, returned one message and left two;
\* all three are as they were sent.
C13_Witness ==
    /\ pc = "idle"
    /\ ret.op = "drain_messages_to_send"
    /\ ret.arg = IsHeartbeat
    /\ Len(ret.val) = 1
    /\ Len(messages) = 2
    /\ \A m \in Held : m = history[m.uid]

\* C14: a drain shows its filter the messages it found pending, each once
\* and front first: at every point of the loop the messages shown so far are
\* a prefix of the queue as the call found it, and at the return they are all
\* of it; on an empty queue nothing is shown and nothing returned.
C14_EachMessageShownOnce ==
    pc = "drain" =>
        /\ Len(evals) <= Len(pre)
        /\ evals = Uids(SubSeq(pre, 1, Len(evals)))
        /\ AtReturn => evals = Uids(pre)
        /\ pre = <<>> => (evals = <<>> /\ drained = <<>>)

\* Two adjacent messages were removed, the third moving up twice, and all
\* three were shown in order.
C14_Witness ==
    /\ AtReturn
    /\ Len(pre) = 3
    /\ evals = Uids(pre)
    /\ drained = <<pre[1], pre[2]>>
    /\ messages = <<pre[3]>>

\* C15: the pending messages and the drain results are a function of the
\* send and drain calls alone.  `shadow` and `shadowOut` are computed from
\* those calls and their arguments only, never from a link-condition field or
\* a setter call, so two transports given the same send and drain calls and
\* different setter calls have the same `shadow`; the queue equals it between
\* calls and when a drain returns, and so does the drain's result.
C15_QueueIgnoresLink ==
    /\ pc = "idle" => messages = shadow
    /\ AtReturn => (messages = shadow /\ drained = shadowOut)

\* A drain returns one message and leaves another, with a negative frame
\* budget, a negative latency and a packet loss of 1.5.
C15_Witness ==
    /\ AtReturn
    /\ Len(drained) > 0
    /\ Len(messages) > 0
    /\ frame_budget_bytes < 0
    /\ latency_nanos < 0
    /\ packet_loss = F32OneAndHalf

\* C16: every message sent is pending once, or collected once by the running
\* drain, or was returned once by one earlier drain, and never two of these;
\* nothing else is pending or collected; and the messages a drain has
\* collected and those it leaves pending are as many as it found.
C16_Conservation ==
    /\ Len(returned) = Len(history)
    /\ \A u \in 1..Len(history) :
          Occurrences(messages, u) + Occurrences(drained, u) + returned[u] = 1
    /\ \A k \in 1..Len(messages) : messages[k].uid \in 1..Len(history)
    /\ \A k \in 1..Len(drained) : drained[k].uid \in 1..Len(history)
    /\ pc = "drain" => Len(drained) + Len(messages) = Len(pre)
    /\ (pc = "idle" /\ ret.op = "drain_messages_to_send") =>
          \A k \in 1..Len(ret.val) :
              /\ returned[ret.val[k].uid] = 1
              /\ Occurrences(messages, ret.val[k].uid) = 0

\* Of three messages sent, the first and the third have been returned and
\* the second is pending.
C16_Witness ==
    /\ pc = "idle"
    /\ returned = <<1, 0, 1>>
    /\ Len(messages) = 1
    /\ messages[1].uid = 2

\* The specification for the liveness properties: every kind of call (send,
\* the three setters with one value each, a query, drains with every filter),
\* and a drain loop that keeps running once it was entered -- the calling
\* thread executes it to the end, nothing in it blocks or waits.
LiveNext ==
    \/ \E input \in SendInputs : Send(input[1], input[2])
    \/ \E budget \in BudgetInputs : SetFrameBudgetBytes(budget)
    \/ SetLatencyNanos(-1500000)
    \/ SetPacketLoss(F32OneAndHalf)
    \/ HasMessages
    \/ \E f \in Filters : DrainBegin(f)
    \/ DrainStep
    \/ DrainReturn

FairSpec == Init /\ [][LiveNext]_vars /\ WF_vars(DrainStep) /\ WF_vars(DrainReturn)

\* C17: inside the loop the index never exceeds the length of the queue, and
\* an iteration finds its index in range; each iteration either advances the
\* index by one or shortens the queue by one, never both; the iterations done
\* and the messages still ahead of the index add up to the messages found, so
\* that the loop exits after as many iterations as it found messages; and
\* every drain that was begun returns.
C17_DrainTerminates ==
    /\ [](pc = "drain" =>
             /\ i <= Len(messages)
             /\ Len(evals) + (Len(messages) - i) = Len(pre)
             /\ AtReturn => Len(evals) = Len(pre)
             /\ ENABLED (DrainStep \/ DrainReturn))
    /\ [][(pc = "drain" /\ pc' = "drain") =>
             /\ i < Len(messages)
             /\ Len(evals') = Len(evals) + 1
             /\ \/ i' = i + 1 /\ Len(messages') = Len(messages)
                \/ i' = i /\ Len(messages') = Len(messages) - 1]_vars
    /\ (pc = "drain") ~> (pc = "idle")

\* A loop over three messages has done its third iteration, having removed
\* one message and passed over two.
C17_Witness ==
    /\ AtReturn
    /\ Len(pre) = 3
    /\ Len(evals) = 3
    /\ i = 2
    /\ Len(drained) = 1

\* The message instance `uid` is pending after the step.
PendingNext(uid) == \E k \in 1..Len(messages') : messages'[k].uid = uid

\* The step adds the message instance `uid` at the end of `drained`.
CollectedNext(uid) ==
    /\ Len(drained') = Len(drained) + 1
    /\ drained'[Len(drained')].uid = uid

\* A drain is running whose filter accepts the message instance `uid`, which
\* it found pending.
AcceptingDrain(uid) ==
    /\ pc = "drain"
    /\ Stateless(filter)
    /\ \E k \in 1..Len(pre) : pre[k].uid = uid /\ Accepts(filter, pre[k])

\* C18: a pending message leaves the queue only in the iteration of a drain
\* that shows it to the filter and gets the answer true, and then it is
\* collected; a message the filter answers false for stays; the messages a
\* drain collects are in the order they were sent; and once a drain is
\* called whose filter accepts a pending message, that message is returned.
C18_ReturnedByFirstAcceptingDrain ==
    /\ [][\A k \in 1..Len(messages) :
             LET shownNow == pc = "drain" /\ pc' = "drain" /\ k = i + 1
                 accepted == shownNow /\ FilterAnswer(filter, fstate, messages[k])
             IN /\ PendingNext(messages[k].uid) <=> ~accepted
                /\ accepted => CollectedNext(messages[k].uid)]_vars
    /\ [](StrictlyIncreasing(Uids(drained)))
    /\ \A u \in 1..MaxSends :
          AcceptingDrain(u) ~> (Len(returned) >= u /\ returned[u] = 1)

\* An always-true drain has returned the second and third message sent, in
\* that order; they had stayed pending through the earlier drain that
\* returned the first.
C18_Witness ==
    /\ pc = "idle"
    /\ ret.op = "drain_messages_to_send"
    /\ ret.arg = AlwaysTrue
    /\ Uids(ret.val) = <<2, 3>>
    /\ returned = <<1, 1, 1>>
    /\ messages = <<>>

====
